---- MODULE Spec2Model ----
(***************************************************************************)
(* Model of bot.py: the aiogram registration bot.  Every inbound update is *)
(* handled by its own coroutine; coroutines of the same or of different    *)
(* users interleave at the awaited network calls (message.answer,          *)
(* bot.send_message, bot.create_chat_invite_link, edit_text,               *)
(* callback.answer).  The FSM storage calls (get_data, update_data,        *)
(* set_state, clear) and the accesses to active_requests do not suspend.   *)
(* A network call either returns or raises; a raise ends the handler.      *)
(* A step of the model is either the dispatch of an update up to the first *)
(* awaited network call, or the return (or raise) of an awaited call       *)
(* together with the code that follows it up to the next awaited call.     *)
(***************************************************************************)
EXTENDS Naturals, FiniteSets, Sequences, Bags, TLC

\* ------------------------------------------------------------------ bounds
\* Number of handler coroutines that can be in flight at once.
MaxTasks == 2
\* Number of updates (messages and callback queries) delivered in a run.
MaxEvents == 6
\* Number of updates delivered while a submission is under review.
MaxReviewEvents == 3
\* Number of updates delivered when two users write to the bot.
MaxTwoEvents == 3
\* Number of updates of the round trips: five messages of each user.
MaxRoundTripEvents == 10

\* ---------------------------------------------------------------- universe
Users == {"u1", "u2"}
\* The users who write to the bot, and whom decisions target, in Spec.
Applicants == {"u1"}
\* ADMIN_IDS, and the order in which `for admin_id in ADMIN_IDS` visits it
\* (fixed for the lifetime of the process: the set is never mutated).
ADMIN_IDS == {"a1", "a2"}
AdminOrder == <<"a1", "a2">>
\* Identities a callback query can come from: the moderators and one other.
Callers == ADMIN_IDS \cup {"x1"}

\* message.text: the begin trigger, the consent button's text, some other
\* text, and None (a message without text: photo, sticker, contact).
StartText == "/start"
ConsentText == "Soglasen"
OtherText == "Ivan"
NoneText == "None"
Texts == {StartText, ConsentText, OtherText, NoneText}

\* A key that is missing from the FSM data dictionary.
Missing == "missing"
Nil == "-"

EmptyData == [name |-> Missing, address |-> Missing]

VARIABLES
    active_requests,  \* the module-level set active_requests
    fsm_state,        \* FSM storage: state of each user ("none" = no state)
    fsm_data,         \* FSM storage: data dictionary of each user
    tasks,            \* the handler coroutines in flight (a bag of them)
    budget,           \* updates that can still be delivered
    last,             \* the step just taken: handler, network call, outcome
    awaiting,         \* history: users with a delivered submission and no
                      \*   decision processed since the last delivery
    decided,          \* history: users for whom a decision was ever processed
    delivered,        \* history: per user, the moderators a submission was
                      \*   delivered to while the session was at PHONE, since
                      \*   the step was last assigned
    buttons,          \* history: per user, the moderators who have received
                      \*   a message with the decision buttons for that user
    notes             \* per user and moderator: the text of the moderator's
                      \*   copy of the user's submission as Telegram holds it,
                      \*   as the annotations appended to text_for_admin

vars == <<active_requests, fsm_state, fsm_data, tasks, budget, last, awaiting,
          decided, delivered, buttons, notes>>

\* A coroutine: the handler it runs, the awaited call it is suspended in,
\* and the handler's locals (user_id, callback.from_user.id, message.text,
\* data['name'], data['address'], the position in ADMIN_IDS,
\* callback.message.text as the annotations it carries).
Task(handler, at, user) ==
    [handler |-> handler, at |-> at, user |-> user, from |-> Nil,
     text |-> Nil, name |-> Nil, address |-> Nil, idx |-> 0, snap |-> <<>>]

\* The coroutines suspended in call `at` of `handler`.
Suspended(handler, at) ==
    {r \in BagToSet(tasks) : r.handler = handler /\ r.at = at}

\* What a step did: the handler it belongs to, the network call that
\* returned or raised in it ("none": the update was just dispatched), the
\* user concerned, and whether the call returned (ok) or raised.
Event(handler, call, user, ok) ==
    [handler |-> handler, call |-> call, user |-> user, ok |-> ok]

\* ------------------------------------------------------- pieces of the code

\* The dispatcher with consent_given filtered on the state alone.
RouteConsentAnyText(st, txt) ==
    IF txt = StartText THEN "start"
    ELSE IF st = "consent" THEN "consent_given"
    ELSE IF st = "name" THEN "get_name"
    ELSE IF st = "address" THEN "get_address"
    ELSE IF st = "phone" THEN "get_phone"
    ELSE "unhandled"

\* The dispatcher with get_name registered without its state filter.
RouteNameAnyState(st, txt) ==
    IF txt = StartText THEN "start"
    ELSE IF st = "consent" /\ txt = ConsentText THEN "consent_given"
    ELSE IF st \in {"name", "none"} THEN "get_name"
    ELSE IF st = "address" THEN "get_address"
    ELSE IF st = "phone" THEN "get_phone"
    ELSE "unhandled"

\* The dispatcher tries the message handlers in registration order and runs
\* the first whose filters pass.
Route(st, txt) ==
    IF txt = StartText THEN "start"
    ELSE IF st = "consent" /\ txt = ConsentText THEN "consent_given"
    ELSE IF st = "name" THEN "get_name"
    ELSE IF st = "address" THEN "get_address"
    ELSE IF st = "phone" THEN "get_phone"
    ELSE "unhandled"

\* start without its test of active_requests.
StartBranchNoGate(u) == "answer"

\* start: `if message.from_user.id in active_requests`.
StartBranch(u) ==
    IF u \in active_requests THEN "answer_busy" ELSE "answer"

\* start setting the step that follows the consent.
StartStepSkipsConsent == "name"

\* start: state.set_state(Registration.consent).
StartStep == "consent"

\* get_phone without its active_requests.add.
MarkPendingForgotten(u) == active_requests

\* get_phone: active_requests.add(user_id).
MarkPending(u) == active_requests \cup {u}

\* The decision handlers with clear() in place of discard(user_id).
ClearPendingAll(u) == {}

\* approve_user / reject_user: active_requests.discard(user_id).
ClearPending(u) == active_requests \ {u}

\* get_phone: text_for_admin reads data['name'] and data['address'];
\* data[...] raises KeyError on a missing key.
BuildFails(data) == data.name = Missing \/ data.address = Missing

\* An update is delivered to the dispatcher: one more coroutine.
Deliver ==
    /\ BagCardinality(tasks) < MaxTasks
    /\ budget > 0
    /\ budget' = budget - 1

\* The routing data of a decision button reaches the bot from a moderator
\* who received the message that carries it, or forged from anyone else
\* (the webhook accepts any update).
CanPress(c, u) == c \in ADMIN_IDS => c \in buttons[u]

\* The annotations of the decision handlers.
ApprovedMark == "approved"
RejectedMark == "rejected"

\* callback.message.text of a decision update.  The decisions of a moderator
\* are followed on the first copy they received.  Telegram builds the update
\* from the message as it holds it: an update built before any edit (and
\* every redelivery of it) carries text_for_admin alone; one built from a
\* press that reaches Telegram after an edit carries the edited text.  A
\* forged update refers to no moderator's copy.
Snapshots(u, c) ==
    IF c \in ADMIN_IDS THEN {<< >>, notes[u][c]} ELSE {<< >>}

\* approve_user / reject_user: callback.message.text + annotation.
EditedText(snap, mark) == Append(snap, mark)

\* edit_text by the coroutine r: Telegram refuses an edit that leaves the
\* text as it is ("message is not modified"), and the call raises.
EditRefused(r, mark) ==
    /\ r.from \in ADMIN_IDS
    /\ EditedText(r.snap, mark) = notes[r.user][r.from]

\* The moderator's copy after an edit_text that returned.
Edited(r, mark) ==
    IF r.from \in ADMIN_IDS
       THEN notes' = [notes EXCEPT ![r.user][r.from] =
                          EditedText(r.snap, mark)]
       ELSE UNCHANGED notes

\* The dispatched handler runs up to its first awaited call.
Begin(r) == tasks' = tasks (+) SetToBag({r})

\* Coroutine r goes on to its next awaited call, as r2.
Resume(r, r2) == tasks' = (tasks (-) SetToBag({r})) (+) SetToBag({r2})

\* The handler returns, or an exception leaves it: the coroutine is over.
Finish(r) == tasks' = tasks (-) SetToBag({r})

\* state.set_state(s) for user u (the history of deliveries restarts).
SetState(u, s) ==
    /\ fsm_state' = [fsm_state EXCEPT ![u] = s]
    /\ delivered' = [delivered EXCEPT ![u] = {}]

\* get_phone without its state.clear().
ClearSessionSkipped(u) == UNCHANGED <<fsm_state, delivered, fsm_data>>

\* get_phone: state.clear() drops the state and the data of the user.
ClearSession(u) ==
    /\ SetState(u, "none")
    /\ fsm_data' = [fsm_data EXCEPT ![u] = EmptyData]

\* get_phone with the mark taken back when a send to a moderator raises.
FanoutRolledBack(r) ==
    /\ Finish(r)
    /\ active_requests' = ClearPending(r.user)

\* get_phone: a send_message of the loop raised; nothing catches it, and
\* nothing undoes active_requests.add.
FanoutRaised(r) ==
    /\ Finish(r)
    /\ UNCHANGED active_requests

\* approve_user with the exception of create_chat_invite_link swallowed.
InviteSwallowed(r) == Resume(r, [r EXCEPT !.at = "send_user"])

\* approve_user: create_chat_invite_link raised; nothing catches it.
InviteRaised(r) == Finish(r)

\* --------------------------------------------------------------------- Init
Init ==
    /\ active_requests = {}
    /\ fsm_state = [u \in Users |-> "none"]
    /\ fsm_data = [u \in Users |-> EmptyData]
    /\ tasks = EmptyBag
    /\ budget = MaxEvents
    /\ last = Event("init", "none", Nil, TRUE)
    /\ awaiting = {}
    /\ decided = {}
    /\ delivered = [u \in Users |-> {}]
    /\ buttons = [u \in Users |-> {}]
    /\ notes = [u \in Users |-> [m \in ADMIN_IDS |-> << >>]]

\* ---------------------------------------------------------------- start
\* lines 84-92: the test of active_requests, then a reply is awaited.
RecvStart(u, txt) ==
    /\ Deliver
    /\ Route(fsm_state[u], txt) = "start"
    /\ Begin([Task("start", StartBranch(u), u) EXCEPT !.text = txt])
    /\ last' = Event("start", "none", u, TRUE)
    /\ UNCHANGED <<active_requests, fsm_state, fsm_data, awaiting, decided, delivered,
                   buttons>>
    /\ UNCHANGED notes

\* line 87: the "already under review" reply, then return.
StartBusyAnswered(r) ==
    /\ r \in Suspended("start", "answer_busy")
    /\ \E ok \in BOOLEAN :
          last' = Event("start", "answer_busy", r.user, ok)
    /\ Finish(r)
    /\ UNCHANGED <<active_requests, fsm_state, fsm_data, budget, awaiting, decided,
                   delivered, buttons>>
    /\ UNCHANGED notes

\* lines 92-103: the consent prompt, then set_state(Registration.consent).
StartAnswered(r) ==
    /\ r \in Suspended("start", "answer")
    /\ \E ok \in BOOLEAN :
          /\ last' = Event("start", "answer", r.user, ok)
          /\ IF ok THEN SetState(r.user, StartStep)
                   ELSE UNCHANGED <<fsm_state, delivered>>
    /\ Finish(r)
    /\ UNCHANGED <<active_requests, fsm_data, budget, awaiting, decided, buttons>>
    /\ UNCHANGED notes

\* ---------------------------------------------------------- consent_given
RecvConsent(u, txt) ==
    /\ Deliver
    /\ Route(fsm_state[u], txt) = "consent_given"
    /\ Begin([Task("consent_given", "answer", u) EXCEPT !.text = txt])
    /\ last' = Event("consent_given", "none", u, TRUE)
    /\ UNCHANGED <<active_requests, fsm_state, fsm_data, awaiting, decided, delivered,
                   buttons>>
    /\ UNCHANGED notes

\* lines 108-109: the name prompt, then set_state(Registration.name).
ConsentAnswered(r) ==
    /\ r \in Suspended("consent_given", "answer")
    /\ \E ok \in BOOLEAN :
          /\ last' = Event("consent_given", "answer", r.user, ok)
          /\ IF ok THEN SetState(r.user, "name")
                   ELSE UNCHANGED <<fsm_state, delivered>>
    /\ Finish(r)
    /\ UNCHANGED <<active_requests, fsm_data, budget, awaiting, decided, buttons>>
    /\ UNCHANGED notes

\* --------------------------------------------------------------- get_name
\* line 114: update_data(name=message.text), then the prompt is awaited.
RecvName(u, txt) ==
    /\ Deliver
    /\ Route(fsm_state[u], txt) = "get_name"
    /\ fsm_data' = [fsm_data EXCEPT ![u].name = txt]
    /\ Begin([Task("get_name", "answer", u) EXCEPT !.text = txt])
    /\ last' = Event("get_name", "none", u, TRUE)
    /\ UNCHANGED <<active_requests, fsm_state, awaiting, decided, delivered, buttons>>
    /\ UNCHANGED notes

\* lines 115-116: the address prompt, then set_state(Registration.address).
NameAnswered(r) ==
    /\ r \in Suspended("get_name", "answer")
    /\ \E ok \in BOOLEAN :
          /\ last' = Event("get_name", "answer", r.user, ok)
          /\ IF ok THEN SetState(r.user, "address")
                   ELSE UNCHANGED <<fsm_state, delivered>>
    /\ Finish(r)
    /\ UNCHANGED <<active_requests, fsm_data, budget, awaiting, decided, buttons>>
    /\ UNCHANGED notes

\* ------------------------------------------------------------ get_address
\* line 121: update_data(address=message.text), then the prompt is awaited.
RecvAddress(u, txt) ==
    /\ Deliver
    /\ Route(fsm_state[u], txt) = "get_address"
    /\ fsm_data' = [fsm_data EXCEPT ![u].address = txt]
    /\ Begin([Task("get_address", "answer", u) EXCEPT !.text = txt])
    /\ last' = Event("get_address", "none", u, TRUE)
    /\ UNCHANGED <<active_requests, fsm_state, awaiting, decided, delivered, buttons>>
    /\ UNCHANGED notes

\* lines 122-123: the phone prompt, then set_state(Registration.phone).
AddressAnswered(r) ==
    /\ r \in Suspended("get_address", "answer")
    /\ \E ok \in BOOLEAN :
          /\ last' = Event("get_address", "answer", r.user, ok)
          /\ IF ok THEN SetState(r.user, "phone")
                   ELSE UNCHANGED <<fsm_state, delivered>>
    /\ Finish(r)
    /\ UNCHANGED <<active_requests, fsm_data, budget, awaiting, decided, buttons>>
    /\ UNCHANGED notes

\* -------------------------------------------------------------- get_phone
\* lines 128-139: get_data, active_requests.add, text_for_admin (KeyError
\* when a key is missing), then the first send_message is awaited.
RecvPhone(u, txt) ==
    /\ Deliver
    /\ Route(fsm_state[u], txt) = "get_phone"
    /\ active_requests' = MarkPending(u)
    /\ IF BuildFails(fsm_data[u])
          THEN /\ UNCHANGED tasks
               /\ last' = Event("get_phone", "none", u, FALSE)
          ELSE /\ Begin([Task("get_phone", "send_admin", u) EXCEPT
                            !.text = txt,
                            !.name = fsm_data[u].name,
                            !.address = fsm_data[u].address,
                            !.idx = 1])
               /\ last' = Event("get_phone", "none", u, TRUE)
    /\ UNCHANGED <<fsm_state, fsm_data, awaiting, decided, delivered, buttons>>
    /\ UNCHANGED notes

\* lines 141-146: one send_message of the loop over ADMIN_IDS.
PhoneSent(r) ==
    /\ r \in Suspended("get_phone", "send_admin")
    /\ LET u == r.user
           m == AdminOrder[r.idx]
       IN \E ok \in BOOLEAN :
             /\ last' = Event("get_phone", "send_admin", u, ok)
             /\ IF ok
                   THEN /\ Resume(r, IF r.idx < Len(AdminOrder)
                                        THEN [r EXCEPT !.idx = r.idx + 1]
                                        ELSE [r EXCEPT !.at = "answer"])
                        /\ awaiting' = awaiting \cup {u}
                        /\ buttons' = [buttons EXCEPT ![u] = @ \cup {m}]
                        /\ delivered' = IF fsm_state[u] = "phone"
                                           THEN [delivered EXCEPT ![u] = @ \cup {m}]
                                           ELSE delivered
                        /\ UNCHANGED active_requests
                   ELSE /\ FanoutRaised(r)
                        /\ UNCHANGED <<awaiting, delivered, buttons>>
    /\ UNCHANGED <<fsm_state, fsm_data, budget, decided>>
    /\ UNCHANGED notes

\* lines 148-153: the acknowledgment, then state.clear().
PhoneAnswered(r) ==
    /\ r \in Suspended("get_phone", "answer")
    /\ \E ok \in BOOLEAN :
          /\ last' = Event("get_phone", "answer", r.user, ok)
          /\ IF ok THEN ClearSession(r.user)
                   ELSE UNCHANGED <<fsm_state, delivered, fsm_data>>
    /\ Finish(r)
    /\ UNCHANGED <<active_requests, budget, awaiting, decided, buttons>>
    /\ UNCHANGED notes

\* ------------------------------------------------------------- unhandled
\* No handler's filters pass: the update is dropped.
RecvUnhandled(u, txt) ==
    /\ budget > 0
    /\ budget' = budget - 1
    /\ Route(fsm_state[u], txt) = "unhandled"
    /\ last' = Event("unhandled", "none", u, TRUE)
    /\ UNCHANGED <<active_requests, fsm_state, fsm_data, tasks, awaiting, decided,
                   delivered, buttons>>
    /\ UNCHANGED notes

\* ------------------------------------------------------------ approve_user
\* lines 156-164: user_id from callback.data, then create_chat_invite_link
\* is awaited.  callback.from_user.id is never read.
RecvApprove(u, c) ==
    /\ Deliver
    /\ CanPress(c, u)
    /\ \E s \in Snapshots(u, c) :
          Begin([Task("approve_user", "invite", u) EXCEPT !.from = c, !.snap = s])
    /\ last' = Event("approve_user", "none", u, TRUE)
    /\ UNCHANGED <<active_requests, fsm_state, fsm_data, awaiting, decided, delivered,
                   buttons>>
    /\ UNCHANGED notes

\* lines 160-166: the invite link is there (or the call raised); the link
\* is sent to the applicant.
ApproveInvited(r) ==
    /\ r \in Suspended("approve_user", "invite")
    /\ \E ok \in BOOLEAN :
          /\ last' = Event("approve_user", "invite", r.user, ok)
          /\ IF ok THEN Resume(r, [r EXCEPT !.at = "send_user"])
                   ELSE InviteRaised(r)
    /\ UNCHANGED <<active_requests, fsm_state, fsm_data, budget, awaiting, decided,
                   delivered, buttons>>
    /\ UNCHANGED notes

\* lines 166-175: the link was sent, then active_requests.discard, then
\* edit_text is awaited.
ApproveSent(r) ==
    /\ r \in Suspended("approve_user", "send_user")
    /\ \E ok \in BOOLEAN :
          /\ last' = Event("approve_user", "send_user", r.user, ok)
          /\ IF ok THEN /\ Resume(r, [r EXCEPT !.at = "edit"])
                        /\ active_requests' = ClearPending(r.user)
                        /\ awaiting' = awaiting \ {r.user}
                        /\ decided' = decided \cup {r.user}
                   ELSE /\ Finish(r)
                        /\ UNCHANGED <<active_requests, awaiting, decided>>
    /\ UNCHANGED <<fsm_state, fsm_data, budget, delivered, buttons>>
    /\ UNCHANGED notes

\* lines 175-178: the moderator's message was edited; callback.answer.
ApproveEdited(r) ==
    /\ r \in Suspended("approve_user", "edit")
    /\ \E ok \in BOOLEAN :
          /\ ok => ~EditRefused(r, ApprovedMark)
          /\ last' = Event("approve_user", "edit", r.user, ok)
          /\ IF ok THEN /\ Resume(r, [r EXCEPT !.at = "ack"])
                        /\ Edited(r, ApprovedMark)
                   ELSE /\ Finish(r)
                        /\ UNCHANGED notes
    /\ UNCHANGED <<active_requests, fsm_state, fsm_data, budget, awaiting, decided,
                   delivered, buttons>>

ApproveAcked(r) ==
    /\ r \in Suspended("approve_user", "ack")
    /\ \E ok \in BOOLEAN :
          last' = Event("approve_user", "ack", r.user, ok)
    /\ Finish(r)
    /\ UNCHANGED <<active_requests, fsm_state, fsm_data, budget, awaiting, decided,
                   delivered, buttons>>
    /\ UNCHANGED notes

\* ------------------------------------------------------------- reject_user
\* lines 181-188: user_id from callback.data, then the rejection notice is
\* sent to the applicant.
RecvReject(u, c) ==
    /\ Deliver
    /\ CanPress(c, u)
    /\ \E s \in Snapshots(u, c) :
          Begin([Task("reject_user", "send_user", u) EXCEPT !.from = c, !.snap = s])
    /\ last' = Event("reject_user", "none", u, TRUE)
    /\ UNCHANGED <<active_requests, fsm_state, fsm_data, awaiting, decided, delivered,
                   buttons>>
    /\ UNCHANGED notes

\* lines 185-192: the notice was sent, then active_requests.discard, then
\* edit_text is awaited.
RejectSent(r) ==
    /\ r \in Suspended("reject_user", "send_user")
    /\ \E ok \in BOOLEAN :
          /\ last' = Event("reject_user", "send_user", r.user, ok)
          /\ IF ok THEN /\ Resume(r, [r EXCEPT !.at = "edit"])
                        /\ active_requests' = ClearPending(r.user)
                        /\ awaiting' = awaiting \ {r.user}
                        /\ decided' = decided \cup {r.user}
                   ELSE /\ Finish(r)
                        /\ UNCHANGED <<active_requests, awaiting, decided>>
    /\ UNCHANGED <<fsm_state, fsm_data, budget, delivered, buttons>>
    /\ UNCHANGED notes

RejectEdited(r) ==
    /\ r \in Suspended("reject_user", "edit")
    /\ \E ok \in BOOLEAN :
          /\ ok => ~EditRefused(r, RejectedMark)
          /\ last' = Event("reject_user", "edit", r.user, ok)
          /\ IF ok THEN /\ Resume(r, [r EXCEPT !.at = "ack"])
                        /\ Edited(r, RejectedMark)
                   ELSE /\ Finish(r)
                        /\ UNCHANGED notes
    /\ UNCHANGED <<active_requests, fsm_state, fsm_data, budget, awaiting, decided,
                   delivered, buttons>>

RejectAcked(r) ==
    /\ r \in Suspended("reject_user", "ack")
    /\ \E ok \in BOOLEAN :
          last' = Event("reject_user", "ack", r.user, ok)
    /\ Finish(r)
    /\ UNCHANGED <<active_requests, fsm_state, fsm_data, budget, awaiting, decided,
                   delivered, buttons>>
    /\ UNCHANGED notes

\* --------------------------------------------------------------------- Next
Next ==
    \/ \E u \in Applicants, txt \in Texts : RecvStart(u, txt)
    \/ \E u \in Applicants, txt \in Texts : RecvConsent(u, txt)
    \/ \E u \in Applicants, txt \in Texts : RecvName(u, txt)
    \/ \E u \in Applicants, txt \in Texts : RecvAddress(u, txt)
    \/ \E u \in Applicants, txt \in Texts : RecvPhone(u, txt)
    \/ \E u \in Applicants, txt \in Texts : RecvUnhandled(u, txt)
    \/ \E u \in Applicants, c \in Callers : RecvApprove(u, c)
    \/ \E u \in Applicants, c \in Callers : RecvReject(u, c)
    \/ \E r \in BagToSet(tasks) : StartBusyAnswered(r)
    \/ \E r \in BagToSet(tasks) : StartAnswered(r)
    \/ \E r \in BagToSet(tasks) : ConsentAnswered(r)
    \/ \E r \in BagToSet(tasks) : NameAnswered(r)
    \/ \E r \in BagToSet(tasks) : AddressAnswered(r)
    \/ \E r \in BagToSet(tasks) : PhoneSent(r)
    \/ \E r \in BagToSet(tasks) : PhoneAnswered(r)
    \/ \E r \in BagToSet(tasks) : ApproveInvited(r)
    \/ \E r \in BagToSet(tasks) : ApproveSent(r)
    \/ \E r \in BagToSet(tasks) : ApproveEdited(r)
    \/ \E r \in BagToSet(tasks) : ApproveAcked(r)
    \/ \E r \in BagToSet(tasks) : RejectSent(r)
    \/ \E r \in BagToSet(tasks) : RejectEdited(r)
    \/ \E r \in BagToSet(tasks) : RejectAcked(r)

Spec == Init /\ [][Next]_vars

\* ------------------------------------------------------- under review
\* The bot from the moment a dialogue has completed without a failure:
\* get_phone has sent the submission to every moderator, acknowledged it
\* and cleared the session; the applicant is in active_requests.
InitReview ==
    /\ active_requests = Applicants
    /\ fsm_state = [u \in Users |-> "none"]
    /\ fsm_data = [u \in Users |-> EmptyData]
    /\ tasks = EmptyBag
    /\ budget = MaxReviewEvents
    /\ \E u \in Applicants : last = Event("get_phone", "answer", u, TRUE)
    /\ awaiting = Applicants
    /\ decided = {}
    /\ delivered = [u \in Users |-> {}]
    /\ buttons = [u \in Users |-> IF u \in Applicants THEN ADMIN_IDS ELSE {}]
    /\ notes = [u \in Users |-> [m \in ADMIN_IDS |-> << >>]]

\* The moderators decide, the applicant writes '/start' or something else.
NextReview ==
    \/ \E u \in Applicants, txt \in Texts : RecvStart(u, txt)
    \/ \E u \in Applicants, txt \in Texts : RecvUnhandled(u, txt)
    \/ \E u \in Applicants, c \in Callers : RecvApprove(u, c)
    \/ \E u \in Applicants, c \in Callers : RecvReject(u, c)
    \/ \E r \in BagToSet(tasks) : StartBusyAnswered(r)
    \/ \E r \in BagToSet(tasks) : StartAnswered(r)
    \/ \E r \in BagToSet(tasks) : ApproveInvited(r)
    \/ \E r \in BagToSet(tasks) : ApproveSent(r)
    \/ \E r \in BagToSet(tasks) : ApproveEdited(r)
    \/ \E r \in BagToSet(tasks) : ApproveAcked(r)
    \/ \E r \in BagToSet(tasks) : RejectSent(r)
    \/ \E r \in BagToSet(tasks) : RejectEdited(r)
    \/ \E r \in BagToSet(tasks) : RejectAcked(r)

SpecReview == InitReview /\ [][NextReview]_vars

\* ------------------------------------------------------------ two users
\* What the FSM storage holds for a user whom the dialogue has taken to
\* step st without a failure (the answers given were OtherText).
DataAt(st) ==
    [name |-> IF st \in {"address", "phone"} THEN OtherText ELSE Missing,
     address |-> IF st = "phone" THEN OtherText ELSE Missing]

\* Both users are near the end of the dialogue, nobody has submitted yet.
Steps == {"address", "phone"}

InitTwo ==
    /\ active_requests = {}
    /\ fsm_state \in [Users -> Steps]
    /\ fsm_data = [u \in Users |-> DataAt(fsm_state[u])]
    /\ tasks = EmptyBag
    /\ budget = MaxTwoEvents
    /\ last = Event("init", "none", Nil, TRUE)
    /\ awaiting = {}
    /\ decided = {}
    /\ delivered = [u \in Users |-> {}]
    /\ buttons = [u \in Users |-> {}]
    /\ notes = [u \in Users |-> [m \in ADMIN_IDS |-> << >>]]

\* The texts the two users write, and the moderator who decides.
TwoTexts == {StartText, ConsentText, OtherText}
TwoCallers == {"a1"}

NextTwo ==
    \/ \E u \in Users, txt \in TwoTexts : RecvStart(u, txt)
    \/ \E u \in Users, txt \in TwoTexts : RecvConsent(u, txt)
    \/ \E u \in Users, txt \in TwoTexts : RecvName(u, txt)
    \/ \E u \in Users, txt \in TwoTexts : RecvAddress(u, txt)
    \/ \E u \in Users, txt \in TwoTexts : RecvPhone(u, txt)
    \/ \E u \in Users, txt \in TwoTexts : RecvUnhandled(u, txt)
    \/ \E u \in Users, c \in TwoCallers : RecvApprove(u, c)
    \/ \E u \in Users, c \in TwoCallers : RecvReject(u, c)
    \/ \E r \in BagToSet(tasks) : StartBusyAnswered(r)
    \/ \E r \in BagToSet(tasks) : StartAnswered(r)
    \/ \E r \in BagToSet(tasks) : ConsentAnswered(r)
    \/ \E r \in BagToSet(tasks) : NameAnswered(r)
    \/ \E r \in BagToSet(tasks) : AddressAnswered(r)
    \/ \E r \in BagToSet(tasks) : PhoneSent(r)
    \/ \E r \in BagToSet(tasks) : PhoneAnswered(r)
    \/ \E r \in BagToSet(tasks) : ApproveInvited(r)
    \/ \E r \in BagToSet(tasks) : ApproveSent(r)
    \/ \E r \in BagToSet(tasks) : ApproveEdited(r)
    \/ \E r \in BagToSet(tasks) : ApproveAcked(r)
    \/ \E r \in BagToSet(tasks) : RejectSent(r)
    \/ \E r \in BagToSet(tasks) : RejectEdited(r)
    \/ \E r \in BagToSet(tasks) : RejectAcked(r)

SpecTwo == InitTwo /\ [][NextTwo]_vars

\* ------------------------------------------------------------ round trip
\* The answers of the round trip.
JaneName == "Jane Doe"
JaneAddress == "1 Main St"
JanePhone == "+15551234567"

InitRoundTrip ==
    /\ active_requests = {}
    /\ fsm_state = [u \in Users |-> "none"]
    /\ fsm_data = [u \in Users |-> EmptyData]
    /\ tasks = EmptyBag
    /\ budget = MaxRoundTripEvents
    /\ last = Event("init", "none", Nil, TRUE)
    /\ awaiting = {}
    /\ decided = {}
    /\ delivered = [u \in Users |-> {}]
    /\ buttons = [u \in Users |-> {}]
    /\ notes = [u \in Users |-> [m \in ADMIN_IDS |-> << >>]]

\* The user writes the next message once the bot has replied to the last.
Waits(u) == \A r \in BagToSet(tasks) : r.user # u

\* The network call of the step returned.
NoFailure == last'.ok

\* Each user, with no session and not pending, writes '/start', the
\* consent text, a name, an address and a phone, and no call fails.
NextRoundTrip ==
    \/ \E u \in Users :
          /\ Waits(u) /\ fsm_state[u] = "none" /\ u \notin active_requests
          /\ RecvStart(u, StartText)
    \/ \E u \in Users : Waits(u) /\ RecvConsent(u, ConsentText)
    \/ \E u \in Users : Waits(u) /\ RecvName(u, JaneName)
    \/ \E u \in Users : Waits(u) /\ RecvAddress(u, JaneAddress)
    \/ \E u \in Users : Waits(u) /\ RecvPhone(u, JanePhone)
    \/ \E r \in BagToSet(tasks) : StartAnswered(r) /\ NoFailure
    \/ \E r \in BagToSet(tasks) : ConsentAnswered(r) /\ NoFailure
    \/ \E r \in BagToSet(tasks) : NameAnswered(r) /\ NoFailure
    \/ \E r \in BagToSet(tasks) : AddressAnswered(r) /\ NoFailure
    \/ \E r \in BagToSet(tasks) : PhoneSent(r) /\ NoFailure
    \/ \E r \in BagToSet(tasks) : PhoneAnswered(r) /\ NoFailure

\* The users go on writing and the event loop resumes every coroutine
\* whose call has returned.
SpecRoundTrip ==
    InitRoundTrip /\ [][NextRoundTrip]_vars /\ WF_vars(NextRoundTrip)

\* ------------------------------------------------------------------ claims

\* Coroutine r took the step: one copy of it is gone (every step of a
\* coroutine changes its record or ends it).
Acted(r) == CopiesIn(r, tasks') < CopiesIn(r, tasks)

\* The step left one more coroutine r2: a dispatched handler, or the
\* coroutine that took the step, at its next awaited call.
Appeared(r2) == CopiesIn(r2, tasks') > CopiesIn(r2, tasks)

\* The step is the dispatch of an update.
Dispatched == BagCardinality(tasks') > BagCardinality(tasks)

\* The step ended a coroutine.
Ended == BagCardinality(tasks') < BagCardinality(tasks)

IsDecision(h) == h \in {"approve_user", "reject_user"}

\* C1: between a session reaching PHONE and its destruction, each
\* moderator is sent at most one submission of that user: a submission is
\* never delivered to a moderator who already got one while the session
\* has stayed at PHONE.
C1_OneSubmissionPerModerator ==
    [][\A r \in Suspended("get_phone", "send_admin") :
          (Acted(r) /\ last'.ok /\ fsm_state[r.user] = "phone")
          => AdminOrder[r.idx] \notin delivered[r.user]]_vars

\* C2: a failed delivery to one moderator does not block the others: when
\* the send to a moderator who is not the last one fails, get_phone goes
\* on with the next moderator.
C2_FailedSendDoesNotBlock ==
    [][\A r \in Suspended("get_phone", "send_admin") :
          (Acted(r) /\ ~last'.ok /\ r.idx < Len(AdminOrder))
          => Appeared([r EXCEPT !.idx = r.idx + 1])]_vars

\* C3: a decision triggered by an identity outside ADMIN_IDS is rejected:
\* its handler completes no credential issuance and no message to the
\* applicant, and leaves active_requests unchanged.
C3_OnlyModeratorsDecide ==
    [][\A r \in BagToSet(tasks) :
          (IsDecision(r.handler) /\ r.from \notin ADMIN_IDS /\ Acted(r))
          => ( /\ ~(last'.call \in {"invite", "send_user"} /\ last'.ok)
               /\ active_requests' = active_requests )]_vars

\* C4: every change of a session's step goes from a step to its successor
\* in START, CONSENT, NAME, ADDRESS, PHONE, COMPLETE (the session is
\* destroyed on completion).
StepOrder ==
    { <<"none", "consent">>, <<"consent", "name">>, <<"name", "address">>,
      <<"address", "phone">>, <<"phone", "none">> }

C4_StepsInOrder ==
    [][\A u \in Users :
          fsm_state'[u] # fsm_state[u]
          => <<fsm_state[u], fsm_state'[u]>> \in StepOrder]_vars

\* C5: an input without text is never recorded as an answer and never
\* part of a submission that get_phone sends to the moderators.
C5_NoInvalidAnswer ==
    /\ \A u \in Users :
          fsm_data[u].name # NoneText /\ fsm_data[u].address # NoneText
    /\ \A r \in BagToSet(tasks) :
          r.handler = "get_phone"
          => r.name # NoneText /\ r.address # NoneText /\ r.text # NoneText

\* C6: a user is in active_requests exactly when a submission of theirs
\* has been delivered to a moderator and no decision for them has been
\* processed since.
C6_PendingIffAwaiting ==
    \A u \in Users : (u \in active_requests) <=> (u \in awaiting)

\* C7: '/start' from a user who is in active_requests takes the "already
\* under review" branch, and the steps of that run (the dispatch and the
\* reply, whether it is delivered or not) change neither the session's
\* step, nor its answers, nor active_requests; the reply is the run's only
\* call.
C7_PendingStartChangesNothing ==
    [][/\ \A r2 \in BagToSet(tasks') :
             ( /\ Dispatched /\ Appeared(r2) /\ r2.handler = "start"
               /\ r2.user \in active_requests )
             => ( /\ r2.at = "answer_busy"
                  /\ UNCHANGED <<fsm_state, fsm_data, active_requests>> )
       /\ \A r \in Suspended("start", "answer_busy") :
             Acted(r)
             => ( /\ Ended
                  /\ last'.call = "answer_busy"
                  /\ UNCHANGED <<fsm_state, fsm_data, active_requests>> )]_vars

C7_Witness ==
    \E u \in Users :
        /\ last = Event("start", "answer_busy", u, TRUE)
        /\ u \in active_requests
        /\ fsm_state[u] = "phone"

\* C8: get_phone adds the user to active_requests before it sends
\* anything: as long as no decision for the user has been processed, the
\* user of a get_phone run that is sending, and every user a moderator has
\* received a submission of, is in active_requests.
C8_PendingBeforeFanout ==
    \A u \in Users :
        u \notin decided
        => /\ u \in awaiting => u \in active_requests
           /\ buttons[u] # {} => u \in active_requests
           /\ \A r \in BagToSet(tasks) :
                 (r.handler = "get_phone" /\ r.user = u)
                 => u \in active_requests

C8_Witness ==
    \E u \in Users :
        /\ last = Event("get_phone", "send_admin", u, TRUE)
        /\ u \in awaiting /\ u \notin decided
        /\ u \in active_requests

\* C9: an approve run calls create_chat_invite_link exactly once, as its
\* first call, and once the link was issued the user is no longer in
\* active_requests when the run ends, however it ends.
C9_ApprovedIsNotPending ==
    [][\A r \in BagToSet(tasks) :
          (r.handler = "approve_user" /\ Acted(r))
          => /\ (last'.call = "invite") <=> (r.at = "invite")
             /\ ~Appeared([r EXCEPT !.at = "invite"])
             /\ (r.at # "invite" /\ Ended) => r.user \notin active_requests']_vars

\* C10: when create_chat_invite_link fails, the approve run ends there:
\* active_requests is as it was, and the run makes no further call (no
\* message to the applicant, no edit of the moderator's message).
C10_FailedIssuanceChangesNothing ==
    [][\A r \in Suspended("approve_user", "invite") :
          (Acted(r) /\ ~last'.ok)
          => ( /\ Ended
               /\ last'.call = "invite"
               /\ UNCHANGED <<active_requests, awaiting, fsm_state, fsm_data>> )]_vars

C10_Witness ==
    \E u \in Users :
        /\ last = Event("approve_user", "invite", u, FALSE)
        /\ u \in active_requests
        /\ u \in awaiting

\* C11: a reject run for user U never calls create_chat_invite_link, makes
\* its send of the rejection notice once, as its first call, and when
\* that call is over (returned or raised) U is not in active_requests.
C11_RejectClearsPending ==
    [][\A r \in BagToSet(tasks) :
          (r.handler = "reject_user" /\ Acted(r))
          => /\ last'.call # "invite"
             /\ (last'.call = "send_user") <=> (r.at = "send_user")
             /\ ~Appeared([r EXCEPT !.at = "send_user"])
             /\ (r.at = "send_user" /\ r.from \in ADMIN_IDS)
                => r.user \notin active_requests']_vars

\* C12: however often an approve interaction for a user is delivered, and
\* however its runs interleave, the moderator's message never carries the
\* approval annotation more than once.
C12_AnnotatedOnce ==
    \A u \in Users, m \in ADMIN_IDS :
        Cardinality({i \in DOMAIN notes[u][m] : notes[u][m][i] = ApprovedMark}) <= 1

\* C13: when a send to a moderator fails during the fan-out, get_phone
\* ends there and active_requests is left as it is: the user, for whom no
\* decision has been processed, is still in active_requests.
C13_NoRollback ==
    [][\A r \in Suspended("get_phone", "send_admin") :
          (Acted(r) /\ ~last'.ok)
          => ( /\ Ended
               /\ active_requests' = active_requests
               /\ r.user \notin decided => r.user \in active_requests' )]_vars

C13_Witness ==
    \E u \in Users :
        /\ last = Event("get_phone", "send_admin", u, FALSE)
        /\ tasks = EmptyBag
        /\ u \in active_requests
        /\ u \notin decided

\* C14: a step taken for user U (the dispatch of a message of U or of a
\* decision targeting U, or the resumption of such a handler) leaves every
\* other user V as it was: V's membership in active_requests, V's step
\* and V's answers.
C14_UsersIsolated ==
    [][\A v \in Users :
          v # last'.user
          => ( /\ (v \in active_requests') <=> (v \in active_requests)
               /\ fsm_state'[v] = fsm_state[v]
               /\ fsm_data'[v] = fsm_data[v]
               /\ awaiting' \cap {v} = awaiting \cap {v}
               /\ buttons'[v] = buttons[v] )]_vars

\* Both users have submitted, each submission reached a moderator, and the
\* approval of one has just been processed: the other is still pending.
C14_Witness ==
    \E u \in Users, v \in Users :
        /\ u # v
        /\ last = Event("approve_user", "send_user", u, TRUE)
        /\ u \in decided /\ buttons[u] # {}
        /\ u \notin active_requests
        /\ v \in active_requests /\ v \in awaiting /\ buttons[v] # {}

\* The round trip of u is over: the submission has reached every
\* moderator, u is pending, no session and no coroutine of u remains.
Done(u) ==
    /\ fsm_state[u] = "none" /\ fsm_data[u] = EmptyData
    /\ u \in active_requests
    /\ buttons[u] = ADMIN_IDS
    /\ Waits(u)

\* C15: with no failing call, the round trip of a user with no session
\* who is not pending eventually ends, and stays, with every moderator
\* holding the submission, the user pending and no session; every
\* submission message carries the user and the three answers entered and
\* goes to a moderator who has none of this user yet (one per moderator);
\* the acknowledgment is sent after the last of them, with the session
\* still at PHONE, and its return clears the session (one acknowledgment).
C15_RoundTrip ==
    /\ \A u \in Users : <>[]Done(u)
    /\ [][\A r \in BagToSet(tasks) :
             (r.handler = "get_phone" /\ Acted(r))
             => /\ r.name = JaneName /\ r.address = JaneAddress
                /\ r.text = JanePhone
                /\ r.at = "send_admin"
                   => AdminOrder[r.idx] \notin buttons[r.user]
                /\ r.at = "answer"
                   => ( /\ buttons[r.user] = ADMIN_IDS
                        /\ fsm_state[r.user] = "phone"
                        /\ Done(r.user)' )]_vars

C15_Witness ==
    /\ \A u \in Users : Done(u)
    /\ last.handler = "get_phone" /\ last.call = "answer" /\ last.ok

\* C16: '/start' of a user who is not in active_requests and has no
\* session goes to the consent prompt and changes nothing by itself; a
\* start run past its test sets no step but CONSENT (it sets it when the
\* prompt was delivered, and none otherwise) and never changes
\* active_requests or the answers.
C16_StartCreatesConsent ==
    [][/\ \A r2 \in BagToSet(tasks') :
             ( /\ Dispatched /\ Appeared(r2) /\ r2.handler = "start"
               /\ r2.user \notin active_requests
               /\ fsm_state[r2.user] = "none" )
             => ( /\ r2.at = "answer"
                  /\ UNCHANGED <<fsm_state, fsm_data, active_requests>> )
       /\ \A r \in Suspended("start", "answer") :
             Acted(r)
             => ( /\ Ended
                  /\ UNCHANGED <<fsm_data, active_requests>>
                  /\ last'.ok => fsm_state'[r.user] = "consent"
                  /\ \A u \in Users :
                        fsm_state'[u] # fsm_state[u]
                        => u = r.user /\ fsm_state'[u] = "consent" )]_vars

\* The first update of the run was '/start', and its prompt was delivered.
C16_Witness ==
    \E u \in Users :
        /\ last = Event("start", "answer", u, TRUE)
        /\ budget = MaxEvents - 1
        /\ fsm_state[u] = "consent"
        /\ fsm_data[u] = EmptyData
        /\ active_requests = {}

\* The step dropped an update that no handler takes, and changed nothing.
Dropped ==
    /\ last'.handler = "unhandled"
    /\ UNCHANGED <<active_requests, fsm_state, fsm_data, tasks, awaiting,
                   decided, delivered, buttons, notes>>

\* C17: a session enters NAME only by a consent_given run, and such a run
\* is dispatched only for the exact consent text at CONSENT; any other
\* message at CONSENT is dropped or is '/start', and its dispatch leaves
\* the step and the answers as they are, however often it is repeated.
C17_OnlyConsentAdvances ==
    [][/\ \A u \in Users :
             (fsm_state'[u] = "name" /\ fsm_state[u] # "name")
             => \E r \in Suspended("consent_given", "answer") :
                   Acted(r) /\ r.user = u /\ r.text = ConsentText
       /\ \A r2 \in BagToSet(tasks') :
             (Dispatched /\ Appeared(r2) /\ r2.handler = "consent_given")
             => fsm_state[r2.user] = "consent" /\ r2.text = ConsentText
       /\ \A r2 \in BagToSet(tasks') :
             ( /\ Dispatched /\ Appeared(r2) /\ ~IsDecision(r2.handler)
               /\ fsm_state[r2.user] = "consent" )
             => ( /\ r2.handler \in {"consent_given", "start"}
                  /\ r2.handler = "start" => r2.text = StartText
                  /\ UNCHANGED <<fsm_state, fsm_data>> )
       /\ last'.handler = "unhandled" => Dropped]_vars

\* A message other than the consent text was just dropped at CONSENT.
C17_Witness ==
    \E u \in Users :
        /\ last = Event("unhandled", "none", u, TRUE)
        /\ fsm_state[u] = "consent"
        /\ tasks = EmptyBag

\* C18: while a user has no session, the only message that starts a
\* handler is '/start'; every other message is dropped: no state is set,
\* active_requests is unchanged, no coroutine (hence no reply and no
\* message to a moderator) comes of it.
C18_NoSessionIgnored ==
    [][/\ \A r2 \in BagToSet(tasks') :
             ( /\ Dispatched /\ Appeared(r2) /\ ~IsDecision(r2.handler)
               /\ fsm_state[r2.user] = "none" )
             => r2.handler = "start" /\ r2.text = StartText
       /\ (last'.handler = "unhandled" /\ fsm_state[last'.user] = "none")
          => Dropped]_vars

\* A message was just dropped for a user without a session.
C18_Witness ==
    \E u \in Users :
        /\ last = Event("unhandled", "none", u, TRUE)
        /\ fsm_state[u] = "none"
        /\ fsm_data[u] = EmptyData
        /\ tasks = EmptyBag

\* C19: whenever a session is at PHONE its answers hold a name and an
\* address, so that get_phone can build the submission.
C19_PhoneHasAnswers ==
    \A u \in Users : fsm_state[u] = "phone" => ~BuildFails(fsm_data[u])

\* C20: once a decision for a user has been processed and the user is not
\* in active_requests, an approve of a moderator for that user does not
\* go on to create_chat_invite_link.
C20_OneCredentialPerSubmission ==
    [][\A r2 \in BagToSet(tasks') :
          ( /\ Dispatched /\ Appeared(r2) /\ r2.handler = "approve_user"
            /\ r2.from \in ADMIN_IDS
            /\ r2.user \in decided /\ r2.user \notin active_requests )
          => r2.at # "invite"]_vars

====
